---- MODULE Spec2Model ----
(***************************************************************************)
(* Model of src/sync.js: SyncManager (single-flight sync passes, the       *)
(* persisted lastSyncVersion) and LocalChangeManager (the durable          *)
(* 'pendingChanges' map and the in-memory tempQueue).                      *)
(*                                                                         *)
(* Scheduling: JavaScript runs one task at a time; a task runs without     *)
(* interruption from one await to the next.  Every action below is one     *)
(* such run: it starts where an awaited promise settles and ends at the    *)
(* next await (or at the return/throw of the outermost async function).    *)
(* A storage call (LocalStorageMgr.get/set/remove) takes effect at the     *)
(* step that resumes after it; it either succeeds or throws.               *)
(*                                                                         *)
(* A change entry {timestamp, change} built by addChange (lines 199-205)   *)
(* is represented by its timestamp: Date.now() is a logical clock that     *)
(* advances at every reading, so the timestamp identifies the call that    *)
(* built the entry and orders the calls.  0 stands for "no entry" in a     *)
(* map and for "absent" as the stored lastSyncVersion (line 13: || 0).     *)
(***************************************************************************)
EXTENDS Naturals, FiniteSets

\* ---------------------------------------------------------------- bounds
NumKeys == 2
MaxPasses == 2
MaxRecords == 2
MaxCleanups == 1
MaxResets == 1
\* calls of the public operations made in one run
MaxCalls == 3
\* calls of clearChanges() made one after the other
MaxClears == 2

Keys == 1..NumKeys
Passes == 1..MaxPasses
Records == 1..MaxRecords
Cleanups == 1..MaxCleanups
Resets == 1..MaxResets
Clears == 1..MaxClears

\* the empty object {} / the empty Map
Empty == [k \in Keys |-> 0]

\* storage contents left by an earlier session: one pending change for the
\* first key, stamped 1, the clock value at which this session starts
InitPending == [k \in Keys |-> IF k = 1 THEN 1 ELSE 0]

VARIABLES
    isSyncing,      \* SyncManager.isSyncing
    tempQueue,      \* LocalChangeManager.tempQueue
    version,        \* storage key 'lastSyncVersion' (0: absent)
    durable,        \* storage key 'pendingChanges'
    now,            \* last value returned by Date.now()
    ppc,            \* per sync call: where it is suspended
    pkind,          \* per sync call: the strategy run, "inc" (syncChange) or "full"
                    \* (syncAllLocalBookmarks)
    pres,           \* per sync call: what it returns or throws
    pbuf,           \* per sync call: local `changes` of mergeTempQueueToStorage
    pver,           \* per sync call: the Date.now() value passed to the version write
    pbatch,         \* per sync call: local `changes` of syncChange (the batch read)
    verAtEntry,     \* history: lastSyncVersion when the pass was admitted
    durAtEntry,     \* history: pendingChanges when the pass was admitted
    busyAtCall,     \* history: a pass was in flight when this sync call was made
    nowAtEntry,     \* history: the clock when the pass was admitted
    cleanupForced,  \* history: a cleanup() reset isSyncing while a pass was in flight
    rpc,            \* per record call: where it is suspended / how it ended
    rkeys,          \* per record call: urls of the bookmarks passed in
    rstamp,         \* per record call: timestamp of the entries it built
    rbuf,           \* per record call: local `changes` of addChange
    cpc,            \* per cleanup call: where it is suspended
    xpc,            \* per resetSyncCache call: where it is suspended
    dpc,            \* per clearChanges call made on its own: where it is suspended
    dfail           \* per clearChanges call made on its own: its storage write threw

passVars == <<ppc, pkind, pres, pbuf, pver, pbatch, verAtEntry, durAtEntry,
             busyAtCall, nowAtEntry>>
recVars == <<rpc, rkeys, rstamp, rbuf>>
clearVars == <<dpc, dfail>>
vars == <<isSyncing, tempQueue, version, durable, now, ppc, pkind, pres, pbuf,
          pver, verAtEntry, durAtEntry, busyAtCall, rpc, rkeys, rstamp, rbuf,
          cpc, xpc, cleanupForced, pbatch, nowAtEntry, dpc, dfail>>

\* a pass between its admission and the end of its finally block
ActivePc == {"canSync", "getPending", "getBookmarks", "getVersion",
             "setVersion", "clear", "flushSet", "flushRet"}
Active(p) == ppc[p] \in ActivePc

\* the calls made so far
Calls ==
    Cardinality({p \in Passes : ppc[p] # "idle"})
    + Cardinality({r \in Records : rpc[r] # "idle"})
    + Cardinality({c \in Cleanups : cpc[c] # "idle"})
    + Cardinality({x \in Resets : xpc[x] # "idle"})

\* call slots are used in order (the slots of one kind are interchangeable)
MayCallPass(p) == Calls < MaxCalls /\ ppc[p] = "idle" /\ \A q \in Passes : q < p => ppc[q] # "idle"
MayCallRecord(r) == Calls < MaxCalls /\ rpc[r] = "idle" /\ \A q \in Records : q < r => rpc[q] # "idle"
MayCallCleanup(c) == Calls < MaxCalls /\ cpc[c] = "idle" /\ \A q \in Cleanups : q < c => cpc[q] # "idle"
MayCallReset(x) == Calls < MaxCalls /\ xpc[x] = "idle" /\ \A q \in Resets : q < x => xpc[q] # "idle"

\* no operation has been called
NothingCalled ==
    /\ now = 1
    /\ ppc = [p \in Passes |-> "idle"]
    /\ pkind = [p \in Passes |-> "none"]
    /\ pres = [p \in Passes |-> "none"]
    /\ pbuf = [p \in Passes |-> Empty]
    /\ pver = [p \in Passes |-> 0]
    /\ verAtEntry = [p \in Passes |-> 0]
    /\ durAtEntry = [p \in Passes |-> Empty]
    /\ busyAtCall = [p \in Passes |-> FALSE]
    /\ pbatch = [p \in Passes |-> Empty]
    /\ nowAtEntry = [p \in Passes |-> 0]
    /\ cleanupForced = FALSE
    /\ rpc = [r \in Records |-> "idle"]
    /\ rkeys = [r \in Records |-> {}]
    /\ rstamp = [r \in Records |-> 0]
    /\ rbuf = [r \in Records |-> Empty]
    /\ cpc = [c \in Cleanups |-> "idle"]
    /\ xpc = [x \in Resets |-> "idle"]
    /\ dpc = [d \in Clears |-> "idle"]
    /\ dfail = [d \in Clears |-> FALSE]

Init ==
    /\ isSyncing = FALSE
    /\ tempQueue = Empty
    /\ version \in {0, 1}
    /\ durable = InitPending
    /\ NothingCalled

\* ------------------------------------------------------- sync pass: entry

\* syncChange without the check of lines 68-70: every call is admitted
syncChange_enter_unguarded(p) ==
    /\ isSyncing' = TRUE
    /\ ppc' = [ppc EXCEPT ![p] = "canSync"]
    /\ pkind' = [pkind EXCEPT ![p] = "inc"]
    /\ verAtEntry' = [verAtEntry EXCEPT ![p] = version]
    /\ durAtEntry' = [durAtEntry EXCEPT ![p] = durable]
    /\ nowAtEntry' = [nowAtEntry EXCEPT ![p] = now]
    /\ UNCHANGED pres

\* syncChange lines 68-74: the isSyncing check, the set, and the call of
\* canSync() up to its await
syncChange_enter(p) ==
    IF isSyncing
    THEN /\ ppc' = [ppc EXCEPT ![p] = "rejected"]
         /\ pres' = [pres EXCEPT ![p] = "AlreadySyncing"]
         /\ pkind' = [pkind EXCEPT ![p] = "inc"]
         /\ UNCHANGED <<isSyncing, verAtEntry, durAtEntry, nowAtEntry>>
    ELSE /\ isSyncing' = TRUE
         /\ ppc' = [ppc EXCEPT ![p] = "canSync"]
         /\ pkind' = [pkind EXCEPT ![p] = "inc"]
         /\ verAtEntry' = [verAtEntry EXCEPT ![p] = version]
         /\ durAtEntry' = [durAtEntry EXCEPT ![p] = durable]
         /\ nowAtEntry' = [nowAtEntry EXCEPT ![p] = now]
         /\ UNCHANGED pres

\* syncAllLocalBookmarks with the check of lines 114-117 moved inside the
\* try block: the rejected call runs the finally block and resets isSyncing
syncAllLocalBookmarks_enter_resets(p) ==
    IF isSyncing
    THEN /\ ppc' = [ppc EXCEPT ![p] = "rejected"]
         /\ pres' = [pres EXCEPT ![p] = "AlreadySyncing"]
         /\ pkind' = [pkind EXCEPT ![p] = "full"]
         /\ isSyncing' = FALSE
         /\ UNCHANGED <<verAtEntry, durAtEntry, nowAtEntry>>
    ELSE /\ isSyncing' = TRUE
         /\ ppc' = [ppc EXCEPT ![p] = "canSync"]
         /\ pkind' = [pkind EXCEPT ![p] = "full"]
         /\ verAtEntry' = [verAtEntry EXCEPT ![p] = version]
         /\ durAtEntry' = [durAtEntry EXCEPT ![p] = durable]
         /\ nowAtEntry' = [nowAtEntry EXCEPT ![p] = now]
         /\ UNCHANGED pres

\* syncAllLocalBookmarks lines 114-121
syncAllLocalBookmarks_enter(p) ==
    IF isSyncing
    THEN /\ ppc' = [ppc EXCEPT ![p] = "rejected"]
         /\ pres' = [pres EXCEPT ![p] = "AlreadySyncing"]
         /\ pkind' = [pkind EXCEPT ![p] = "full"]
         /\ UNCHANGED <<isSyncing, verAtEntry, durAtEntry, nowAtEntry>>
    ELSE /\ isSyncing' = TRUE
         /\ ppc' = [ppc EXCEPT ![p] = "canSync"]
         /\ pkind' = [pkind EXCEPT ![p] = "full"]
         /\ verAtEntry' = [verAtEntry EXCEPT ![p] = version]
         /\ durAtEntry' = [durAtEntry EXCEPT ![p] = durable]
         /\ nowAtEntry' = [nowAtEntry EXCEPT ![p] = now]
         /\ UNCHANGED pres

\* a direct call of syncChange()
SyncChangeCall(p) ==
    /\ MayCallPass(p)
    /\ busyAtCall' = [busyAtCall EXCEPT ![p] = \E q \in Passes : Active(q)]
    /\ syncChange_enter(p)
    /\ UNCHANGED <<tempQueue, version, durable, now, pbuf, pver, recVars, cpc, xpc,
                   cleanupForced, pbatch, clearVars>>

\* a direct call of syncAllLocalBookmarks()
SyncAllCall(p) ==
    /\ MayCallPass(p)
    /\ busyAtCall' = [busyAtCall EXCEPT ![p] = \E q \in Passes : Active(q)]
    /\ syncAllLocalBookmarks_enter(p)
    /\ UNCHANGED <<tempQueue, version, durable, now, pbuf, pver, recVars, cpc, xpc,
                   cleanupForced, pbatch, clearVars>>

\* startSync line 29: the call of getSyncVersion() up to its await
StartSyncCall(p) ==
    /\ MayCallPass(p)
    /\ ppc' = [ppc EXCEPT ![p] = "startRead"]
    /\ busyAtCall' = [busyAtCall EXCEPT ![p] = \E q \in Passes : Active(q)]
    /\ UNCHANGED <<isSyncing, tempQueue, version, durable, now, pkind, pres,
                   pbuf, pver, verAtEntry, durAtEntry, nowAtEntry, recVars, cpc, xpc,
                   cleanupForced, pbatch, clearVars>>

\* startSync without the test of line 30: the incremental strategy always
StartSyncDispatch_alwaysIncremental(p) ==
    /\ ppc[p] = "startRead"
    /\ \E ok \in BOOLEAN :
        IF ~ok
        THEN /\ ppc' = [ppc EXCEPT ![p] = "aborted"]
             /\ pres' = [pres EXCEPT ![p] = "StorageFailure"]
             /\ UNCHANGED <<isSyncing, pkind, verAtEntry, durAtEntry, nowAtEntry>>
        ELSE syncChange_enter(p)
    /\ UNCHANGED <<tempQueue, version, durable, now, pbuf, pver, busyAtCall, recVars,
                   cpc, xpc, cleanupForced, pbatch, clearVars>>

\* startSync lines 29-34: the version read returns (or throws) and the
\* chosen strategy runs up to its first await
StartSyncDispatch(p) ==
    /\ ppc[p] = "startRead"
    /\ \E ok \in BOOLEAN :
        IF ~ok
        THEN /\ ppc' = [ppc EXCEPT ![p] = "aborted"]
             /\ pres' = [pres EXCEPT ![p] = "StorageFailure"]
             /\ UNCHANGED <<isSyncing, pkind, verAtEntry, durAtEntry, nowAtEntry>>
        ELSE IF version = 0
             THEN syncAllLocalBookmarks_enter(p)
             ELSE syncChange_enter(p)
    /\ UNCHANGED <<tempQueue, version, durable, now, pbuf, pver, busyAtCall, recVars,
                   cpc, xpc, cleanupForced, pbatch, clearVars>>

\* ------------------------------------------- LocalChangeManager: the flush

\* mergeTempQueueToStorage lines 238-244, as called from the finally block of
\* syncChange (line 105): with a non-empty queue it copies the queue into a
\* local object and suspends in LocalStorageMgr.set; with an empty queue it
\* returns at once and the caller's await suspends
mergeTempQueueToStorage_call(p) ==
    IF tempQueue # Empty
    THEN /\ pbuf' = [pbuf EXCEPT ![p] = tempQueue]
         /\ ppc' = [ppc EXCEPT ![p] = "flushSet"]
    ELSE /\ pbuf' = pbuf
         /\ ppc' = [ppc EXCEPT ![p] = "flushRet"]

\* syncChange lines 100-105: the body ends with `outcome` (the returned
\* result or the rethrown error) and the finally block starts
syncChange_finally(p, outcome) ==
    /\ pres' = [pres EXCEPT ![p] = outcome]
    /\ mergeTempQueueToStorage_call(p)

\* syncAllLocalBookmarks lines 148-154: the body ends with `outcome`; the
\* finally block has no await
syncAllLocalBookmarks_finally(p, outcome) ==
    /\ pres' = [pres EXCEPT ![p] = outcome]
    /\ ppc' = [ppc EXCEPT ![p] = "done"]
    /\ isSyncing' = FALSE
    /\ pbuf' = pbuf

\* ------------------------------------------------ syncChange: body, finally

\* lines 74-84: canSync() settles with navigator.onLine
SyncChangeCanSync(p) ==
    /\ ppc[p] = "canSync" /\ pkind[p] = "inc"
    /\ \E online \in BOOLEAN :
        IF online
        THEN /\ ppc' = [ppc EXCEPT ![p] = "getPending"]
             /\ UNCHANGED <<pres, pbuf>>
        ELSE syncChange_finally(p, "NetworkUnavailable")
    /\ UNCHANGED <<isSyncing, tempQueue, version, durable, now, pkind, pver,
                   verAtEntry, durAtEntry, nowAtEntry, busyAtCall, recVars, cpc, xpc,
                   cleanupForced, pbatch, clearVars>>

\* lines 84-89: getPendingChanges() settles; the batch `changes` is only
\* logged
SyncChangeGetPending(p) ==
    /\ ppc[p] = "getPending"
    /\ \E ok \in BOOLEAN :
        IF ok
        THEN /\ ppc' = [ppc EXCEPT ![p] = "getVersion"]
             /\ pbatch' = [pbatch EXCEPT ![p] = durable]
             /\ UNCHANGED <<pres, pbuf>>
        ELSE /\ syncChange_finally(p, "StorageFailure")
             /\ pbatch' = pbatch
    /\ UNCHANGED <<isSyncing, tempQueue, version, durable, now, pkind, pver,
                   verAtEntry, durAtEntry, nowAtEntry, busyAtCall, recVars, cpc, xpc,
                   cleanupForced, clearVars>>

\* lines 89-93: getSyncVersion() settles; set('lastSyncVersion', Date.now())
\* is called
SyncChangeGetVersion(p) ==
    /\ ppc[p] = "getVersion" /\ pkind[p] = "inc"
    /\ \E ok \in BOOLEAN :
        IF ok
        THEN /\ ppc' = [ppc EXCEPT ![p] = "setVersion"]
             /\ now' = now + 1
             /\ pver' = [pver EXCEPT ![p] = now + 1]
             /\ UNCHANGED <<pres, pbuf>>
        ELSE /\ syncChange_finally(p, "StorageFailure")
             /\ UNCHANGED <<now, pver>>
    /\ UNCHANGED <<isSyncing, tempQueue, version, durable, pkind,
                   verAtEntry, durAtEntry, nowAtEntry, busyAtCall, recVars, cpc, xpc,
                   cleanupForced, pbatch, clearVars>>

\* lines 93-96: the version write settles; clearChanges() is called
SyncChangeSetVersion(p) ==
    /\ ppc[p] = "setVersion" /\ pkind[p] = "inc"
    /\ \E ok \in BOOLEAN :
        IF ok
        THEN /\ version' = pver[p]
             /\ ppc' = [ppc EXCEPT ![p] = "clear"]
             /\ UNCHANGED <<pres, pbuf>>
        ELSE /\ syncChange_finally(p, "StorageFailure")
             /\ version' = version
    /\ pver' = [pver EXCEPT ![p] = 0]
    /\ UNCHANGED <<isSyncing, tempQueue, durable, now, pkind,
                   verAtEntry, durAtEntry, nowAtEntry, busyAtCall, recVars, cpc, xpc,
                   cleanupForced, pbatch, clearVars>>

\* clearChanges that empties only the entries after the first key
clearChanges_keepsFirstKey(ok) ==
    durable' = IF ok THEN [k \in Keys |-> IF k = 1 THEN durable[k] ELSE 0] ELSE durable

\* clearChanges line 233: set('pendingChanges', {})
clearChanges(ok) ==
    durable' = IF ok THEN Empty ELSE durable

\* lines 96-105: clearChanges() settles; return result; finally starts
SyncChangeClear(p) ==
    /\ ppc[p] = "clear"
    /\ \E ok \in BOOLEAN :
        /\ clearChanges(ok)
        /\ syncChange_finally(p, IF ok THEN "success" ELSE "StorageFailure")
    /\ UNCHANGED <<isSyncing, tempQueue, version, now, pkind, pver,
                   verAtEntry, durAtEntry, nowAtEntry, busyAtCall, recVars, cpc, xpc,
                   cleanupForced, pbatch, clearVars>>

\* mergeTempQueueToStorage lines 244-245: the write of the copied queue
\* settles, then the queue is cleared; a failed write rejects the await of
\* line 105, so line 106 is not reached
mergeTempQueueToStorage_resume(p, ok) ==
    IF ok
    THEN /\ durable' = pbuf[p]
         /\ tempQueue' = Empty
         /\ ppc' = [ppc EXCEPT ![p] = "flushRet"]
         /\ pres' = pres
    ELSE /\ ppc' = [ppc EXCEPT ![p] = "done"]
         /\ pres' = [pres EXCEPT ![p] = "StorageFailure"]
         /\ UNCHANGED <<durable, tempQueue>>

SyncChangeFlushSet(p) ==
    /\ ppc[p] = "flushSet"
    /\ \E ok \in BOOLEAN : mergeTempQueueToStorage_resume(p, ok)
    /\ pbuf' = [pbuf EXCEPT ![p] = Empty]
    /\ UNCHANGED <<isSyncing, version, now, pkind, pver,
                   verAtEntry, durAtEntry, nowAtEntry, busyAtCall, recVars, cpc, xpc,
                   cleanupForced, pbatch, clearVars>>

\* lines 105-107: the await of mergeTempQueueToStorage() resumes
SyncChangeFlushRet(p) ==
    /\ ppc[p] = "flushRet"
    /\ isSyncing' = FALSE
    /\ ppc' = [ppc EXCEPT ![p] = "done"]
    /\ UNCHANGED <<tempQueue, version, durable, now, pkind, pres, pbuf, pver,
                   verAtEntry, durAtEntry, nowAtEntry, busyAtCall, recVars, cpc, xpc,
                   cleanupForced, pbatch, clearVars>>

\* --------------------------------------------- syncAllLocalBookmarks: body

\* lines 121-131: canSync() settles; getBookmarks() is called
SyncAllCanSync(p) ==
    /\ ppc[p] = "canSync" /\ pkind[p] = "full"
    /\ \E online \in BOOLEAN :
        IF online
        THEN /\ ppc' = [ppc EXCEPT ![p] = "getBookmarks"]
             /\ UNCHANGED <<isSyncing, pres, pbuf>>
        ELSE syncAllLocalBookmarks_finally(p, "NetworkUnavailable")
    /\ UNCHANGED <<tempQueue, version, durable, now, pkind, pver,
                   verAtEntry, durAtEntry, nowAtEntry, busyAtCall, recVars, cpc, xpc,
                   cleanupForced, pbatch, clearVars>>

\* lines 131-140: getBookmarks() settles; the converted list is only logged
SyncAllGetBookmarks(p) ==
    /\ ppc[p] = "getBookmarks"
    /\ \E ok \in BOOLEAN :
        IF ok
        THEN /\ ppc' = [ppc EXCEPT ![p] = "getVersion"]
             /\ UNCHANGED <<isSyncing, pres, pbuf>>
        ELSE syncAllLocalBookmarks_finally(p, "StorageFailure")
    /\ UNCHANGED <<tempQueue, version, durable, now, pkind, pver,
                   verAtEntry, durAtEntry, nowAtEntry, busyAtCall, recVars, cpc, xpc,
                   cleanupForced, pbatch, clearVars>>

\* lines 140-144
SyncAllGetVersion(p) ==
    /\ ppc[p] = "getVersion" /\ pkind[p] = "full"
    /\ \E ok \in BOOLEAN :
        IF ok
        THEN /\ ppc' = [ppc EXCEPT ![p] = "setVersion"]
             /\ now' = now + 1
             /\ pver' = [pver EXCEPT ![p] = now + 1]
             /\ UNCHANGED <<isSyncing, pres, pbuf>>
        ELSE /\ syncAllLocalBookmarks_finally(p, "StorageFailure")
             /\ UNCHANGED <<now, pver>>
    /\ UNCHANGED <<tempQueue, version, durable, pkind,
                   verAtEntry, durAtEntry, nowAtEntry, busyAtCall, recVars, cpc, xpc,
                   cleanupForced, pbatch, clearVars>>

\* syncAllLocalBookmarks calling clearChanges() after the version write, as
\* syncChange does at line 96
SyncAllSetVersion_clears(p) ==
    /\ ppc[p] = "setVersion" /\ pkind[p] = "full"
    /\ \E ok \in BOOLEAN :
        /\ version' = IF ok THEN pver[p] ELSE version
        /\ syncAllLocalBookmarks_finally(p, IF ok THEN "success" ELSE "StorageFailure")
    /\ pver' = [pver EXCEPT ![p] = 0]
    /\ durable' = Empty
    /\ UNCHANGED <<tempQueue, now, pkind,
                   verAtEntry, durAtEntry, nowAtEntry, busyAtCall, recVars, cpc, xpc,
                   cleanupForced, pbatch, clearVars>>

\* lines 144-154: the version write settles; return result; finally
SyncAllSetVersion(p) ==
    /\ ppc[p] = "setVersion" /\ pkind[p] = "full"
    /\ \E ok \in BOOLEAN :
        /\ version' = IF ok THEN pver[p] ELSE version
        /\ syncAllLocalBookmarks_finally(p, IF ok THEN "success" ELSE "StorageFailure")
    /\ pver' = [pver EXCEPT ![p] = 0]
    /\ UNCHANGED <<tempQueue, durable, now, pkind,
                   verAtEntry, durAtEntry, nowAtEntry, busyAtCall, recVars, cpc, xpc,
                   cleanupForced, pbatch, clearVars>>

\* ------------------------------------------------------------ record calls

\* addChange without the early return of line 196
addChange_noEmptyCheck(r, ks) ==
    /\ now' = now + 1
    /\ rstamp' = [rstamp EXCEPT ![r] = now + 1]
    /\ IF isSyncing
       THEN /\ tempQueue' = [k \in Keys |-> IF k \in ks THEN now + 1 ELSE tempQueue[k]]
            /\ rpc' = [rpc EXCEPT ![r] = "doneTemp"]
       ELSE /\ tempQueue' = tempQueue
            /\ rpc' = [rpc EXCEPT ![r] = "read"]

\* addChange lines 191-221 up to its first await, with the urls `ks` of the
\* bookmarks passed in: nothing for an empty array; otherwise the entries are
\* stamped with Date.now() and either put into tempQueue (isSyncing) or the
\* call suspends in getPendingChanges()
addChange(r, ks) ==
    IF ks = {}
    THEN /\ rpc' = [rpc EXCEPT ![r] = "doneEmpty"]
         /\ UNCHANGED <<now, rstamp, tempQueue>>
    ELSE /\ now' = now + 1
         /\ rstamp' = [rstamp EXCEPT ![r] = now + 1]
         /\ IF isSyncing
            THEN /\ tempQueue' = [k \in Keys |-> IF k \in ks THEN now + 1 ELSE tempQueue[k]]
                 /\ rpc' = [rpc EXCEPT ![r] = "doneTemp"]
            ELSE /\ tempQueue' = tempQueue
                 /\ rpc' = [rpc EXCEPT ![r] = "read"]

\* a direct call of changeManager.addChange(bookmarks)
AddChangeCall(r) ==
    /\ MayCallRecord(r)
    /\ \E ks \in SUBSET Keys :
        /\ rkeys' = [rkeys EXCEPT ![r] = ks]
        /\ addChange(r, ks)
    /\ UNCHANGED <<isSyncing, version, durable, passVars, rbuf, cpc, xpc, cleanupForced,
                   clearVars>>

\* recordBookmarkChange lines 40-41: the call of getSyncVersion() up to its
\* await (the bookmarks passed in are not looked at before line 51; the model
\* draws them there)
RecordBookmarkChangeCall(r) ==
    /\ MayCallRecord(r)
    /\ rpc' = [rpc EXCEPT ![r] = "recVersion"]
    /\ UNCHANGED <<isSyncing, tempQueue, version, durable, now, passVars,
                   rkeys, rstamp, rbuf, cpc, xpc, cleanupForced, clearVars>>

\* recordBookmarkChange without the test of line 49: addChange is called
\* whatever the version read
RecordBookmarkChangeResume_ungated(r) ==
    /\ rpc[r] = "recVersion"
    /\ \E ok \in BOOLEAN :
        IF ~ok
        THEN /\ rpc' = [rpc EXCEPT ![r] = "doneErr"]
             /\ UNCHANGED <<now, rkeys, rstamp, tempQueue>>
        ELSE \E ks \in SUBSET Keys :
                /\ rkeys' = [rkeys EXCEPT ![r] = ks]
                /\ addChange(r, ks)
    /\ UNCHANGED <<isSyncing, version, durable, passVars, rbuf, cpc, xpc, cleanupForced,
                   clearVars>>

\* recordBookmarkChange lines 41-52: the version read settles; addChange is
\* called only for a nonzero version
RecordBookmarkChangeResume(r) ==
    /\ rpc[r] = "recVersion"
    /\ \E ok \in BOOLEAN :
        IF ~ok
        THEN /\ rpc' = [rpc EXCEPT ![r] = "doneErr"]
             /\ UNCHANGED <<now, rkeys, rstamp, tempQueue>>
        ELSE IF version # 0
             THEN \E ks \in SUBSET Keys :
                    /\ rkeys' = [rkeys EXCEPT ![r] = ks]
                    /\ addChange(r, ks)
             ELSE /\ rpc' = [rpc EXCEPT ![r] = "doneSkip"]
                  /\ UNCHANGED <<now, rkeys, rstamp, tempQueue>>
    /\ UNCHANGED <<isSyncing, version, durable, passVars, rbuf, cpc, xpc, cleanupForced,
                   clearVars>>

\* getPendingChanges lines 185-188 and addChange lines 215-219: the read of
\* 'pendingChanges' settles, the entries are put into the object read, and
\* set('pendingChanges', changes) is called
AddChangeRead(r) ==
    /\ rpc[r] = "read"
    /\ \E ok \in BOOLEAN :
        IF ok
        THEN /\ rbuf' = [rbuf EXCEPT ![r] =
                    [k \in Keys |-> IF k \in rkeys[r] THEN rstamp[r] ELSE durable[k]]]
             /\ rpc' = [rpc EXCEPT ![r] = "write"]
        ELSE /\ rbuf' = rbuf
             /\ rpc' = [rpc EXCEPT ![r] = "doneErr"]
    /\ UNCHANGED <<isSyncing, tempQueue, version, durable, now, passVars,
                   rkeys, rstamp, cpc, xpc, cleanupForced, clearVars>>

\* addChange lines 219-221: the write of 'pendingChanges' settles
AddChangeWrite(r) ==
    /\ rpc[r] = "write"
    /\ \E ok \in BOOLEAN :
        IF ok
        THEN /\ durable' = rbuf[r]
             /\ rpc' = [rpc EXCEPT ![r] = "doneDurable"]
        ELSE /\ durable' = durable
             /\ rpc' = [rpc EXCEPT ![r] = "doneErr"]
    /\ rbuf' = [rbuf EXCEPT ![r] = Empty]
    /\ UNCHANGED <<isSyncing, tempQueue, version, now, passVars,
                   rkeys, rstamp, cpc, xpc, cleanupForced, clearVars>>

\* ------------------------------------------------- cleanup, resetSyncCache

\* SyncManager.cleanup lines 17-18 and LocalChangeManager.cleanup lines
\* 180-181: the queue is cleared and the call suspends in clearChanges()
CleanupCall(c) ==
    /\ MayCallCleanup(c)
    /\ tempQueue' = Empty
    /\ cpc' = [cpc EXCEPT ![c] = "clear"]
    /\ UNCHANGED <<isSyncing, version, durable, now, passVars, recVars, xpc,
                   cleanupForced, clearVars>>

\* LocalChangeManager.cleanup line 181: clearChanges() settles; a failure
\* rejects cleanup() before line 19
CleanupClear(c) ==
    /\ cpc[c] = "clear"
    /\ \E ok \in BOOLEAN :
        /\ clearChanges(ok)
        /\ cpc' = [cpc EXCEPT ![c] = IF ok THEN "ret" ELSE "doneErr"]
    /\ UNCHANGED <<isSyncing, tempQueue, version, now, passVars, recVars, xpc,
                   cleanupForced, clearVars>>

\* SyncManager.cleanup lines 18-19: the await resumes; isSyncing = false
CleanupRet(c) ==
    /\ cpc[c] = "ret"
    /\ isSyncing' = FALSE
    /\ cpc' = [cpc EXCEPT ![c] = "done"]
    /\ cleanupForced' = (cleanupForced \/ \E p \in Passes : Active(p))
    /\ UNCHANGED <<tempQueue, version, durable, now, passVars, recVars, xpc, clearVars>>

\* resetSyncCache line 23: the call of remove(['lastSyncVersion'])
ResetSyncCacheCall(x) ==
    /\ MayCallReset(x)
    /\ xpc' = [xpc EXCEPT ![x] = "remove"]
    /\ UNCHANGED <<isSyncing, tempQueue, version, durable, now, passVars,
                   recVars, cpc, cleanupForced, clearVars>>

\* resetSyncCache line 23: the remove settles
ResetSyncCacheRemove(x) ==
    /\ xpc[x] = "remove"
    /\ \E ok \in BOOLEAN :
        /\ version' = IF ok THEN 0 ELSE version
        /\ xpc' = [xpc EXCEPT ![x] = IF ok THEN "done" ELSE "doneErr"]
    /\ UNCHANGED <<isSyncing, tempQueue, durable, now, passVars, recVars, cpc,
                   cleanupForced, clearVars>>

\* ------------------------------------------ clearChanges called on its own

\* a call of changeManager.clearChanges() made after the earlier calls have
\* returned: line 233 up to the await of set('pendingChanges', {})
ClearChangesCall(d) ==
    /\ dpc[d] = "idle"
    /\ \A e \in Clears : e < d => dpc[e] \in {"done", "doneErr"}
    /\ dpc' = [dpc EXCEPT ![d] = "set"]
    /\ UNCHANGED <<isSyncing, tempQueue, version, durable, now, passVars, recVars,
                   cpc, xpc, cleanupForced, dfail>>

\* clearChanges line 233: the write settles; dfail records that it threw
ClearChangesResume(d) ==
    /\ dpc[d] = "set"
    /\ \E ok \in BOOLEAN :
        /\ clearChanges(ok)
        /\ dpc' = [dpc EXCEPT ![d] = IF ok THEN "done" ELSE "doneErr"]
        /\ dfail' = [dfail EXCEPT ![d] = ~ok]
    /\ UNCHANGED <<isSyncing, tempQueue, version, now, passVars, recVars,
                   cpc, xpc, cleanupForced>>


\* ----------------------------------------------------------- specification

PassStep(p) ==
    \/ SyncChangeCall(p) \/ SyncAllCall(p)
    \/ StartSyncCall(p) \/ StartSyncDispatch(p)
    \/ SyncChangeCanSync(p) \/ SyncChangeGetPending(p)
    \/ SyncChangeGetVersion(p) \/ SyncChangeSetVersion(p)
    \/ SyncChangeClear(p) \/ SyncChangeFlushSet(p) \/ SyncChangeFlushRet(p)
    \/ SyncAllCanSync(p) \/ SyncAllGetBookmarks(p)
    \/ SyncAllGetVersion(p) \/ SyncAllSetVersion(p)

RecordStep(r) ==
    \/ AddChangeCall(r) \/ RecordBookmarkChangeCall(r)
    \/ RecordBookmarkChangeResume(r)
    \/ AddChangeRead(r) \/ AddChangeWrite(r)

CleanupStep(c) == CleanupCall(c) \/ CleanupClear(c) \/ CleanupRet(c)

ResetStep(x) == ResetSyncCacheCall(x) \/ ResetSyncCacheRemove(x)

NextNoCleanup ==
    \/ \E p \in Passes : PassStep(p)
    \/ \E r \in Records : RecordStep(r)
    \/ \E x \in Resets : ResetStep(x)

Next ==
    \/ NextNoCleanup
    \/ \E c \in Cleanups : CleanupStep(c)

Spec == Init /\ [][Next]_vars

\* clearChanges() called on its own, one call after the other, on a ledger
\* in any state an earlier session or an earlier pass can have left: entries
\* stamped up to the current clock in the durable set and in tempQueue
InitLedger ==
    /\ isSyncing \in BOOLEAN
    /\ tempQueue \in [Keys -> {0, 1}]
    /\ version \in {0, 1}
    /\ durable \in [Keys -> {0, 1}]
    /\ NothingCalled

NextClear == \E d \in Clears : ClearChangesCall(d) \/ ClearChangesResume(d)

SpecClear == InitLedger /\ [][NextClear]_vars

TypeOK ==
    /\ isSyncing \in BOOLEAN
    /\ tempQueue \in [Keys -> Nat]
    /\ durable \in [Keys -> Nat]
    /\ pbatch \in [Passes -> [Keys -> Nat]]
    /\ version \in Nat /\ now \in Nat
    /\ \A p \in Passes : ppc[p] \in ActivePc \cup {"idle", "startRead", "rejected", "aborted", "done"}
    /\ \A r \in Records : rpc[r] \in {"idle", "recVersion", "read", "write", "doneEmpty",
                                       "doneTemp", "doneDurable", "doneSkip", "doneErr"}

\* ------------------------------------------------------------------ claims

ActivePasses == {p \in Passes : Active(p)}

\* C1 (as claimed): under every interleaving of the operations, cleanup
\* included, at most one sync pass is between its admission and its exit.
C1_MutualExclusion == Cardinality(ActivePasses) <= 1

\* C1 (amended): at most one sync pass is between its admission and its exit,
\* unless a cleanup() call reset isSyncing while a pass was in flight.
C1_MutualExclusionUnlessCleanup ==
    ~cleanupForced => Cardinality(ActivePasses) <= 1

\* C1 witness: a second pass is in flight after a first one has exited, with
\* no forced reset
C1_Witness ==
    /\ ~cleanupForced
    /\ \E p, q \in Passes : ppc[p] = "done" /\ Active(q)

\* the step in which sync call p runs the isSyncing check of its strategy
AtCheck(p) ==
    /\ ppc[p] \in {"idle", "startRead"}
    /\ ppc'[p] \notin {"idle", "startRead", "aborted"}

Rejected(p) ==
    /\ ppc'[p] = "rejected"
    /\ pres'[p] = "AlreadySyncing"
    /\ isSyncing /\ isSyncing'
    /\ UNCHANGED <<version, durable, tempQueue>>

\* C2 (as claimed): a sync call made while an earlier pass is pending fails
\* with AlreadySyncing and leaves isSyncing, the version, the durable set and
\* the overflow buffer as they were.
C2_SingleFlight ==
    [][\A p \in Passes : (AtCheck(p) /\ busyAtCall'[p]) => Rejected(p)]_vars

\* C2 (amended): a sync call whose isSyncing check runs while an earlier pass
\* is pending, no cleanup() having reset isSyncing under a pass, fails with
\* AlreadySyncing and leaves isSyncing, the version, the durable set and the
\* overflow buffer as they were.
C2_RejectedAtCheck ==
    [][\A p \in Passes :
        (AtCheck(p) /\ ActivePasses # {} /\ ~cleanupForced) => Rejected(p)]_vars

\* C2 witness: a call has been rejected while the earlier pass is in flight
C2_Witness ==
    /\ ~cleanupForced /\ isSyncing
    /\ \E p, q \in Passes : ppc[p] = "rejected" /\ Active(q)

\* C3: whenever isSyncing is false the overflow buffer is empty.
C3_OverflowOnlyWhileSyncing == ~isSyncing => tempQueue = Empty

\* ---- helpers of the claims below

Max(S) == CHOOSE x \in S : \A y \in S : y <= x

Exited(p) == ppc[p] = "done"

\* p is the only sync call admitted so far
OnlyPass(p) ==
    \A q \in Passes : q # p => ppc[q] \in {"idle", "startRead", "rejected", "aborted"}

NoCleanupCalled == \A c \in Cleanups : cpc[c] = "idle"
NoResetCalled == \A x \in Resets : xpc[x] = "idle"

\* the record calls whose entries went to the overflow buffer
Buffered == {r \in Records : rpc[r] = "doneTemp"}

\* the stamp of the last entry for key k among the record calls in R (0: none)
LastFor(R, k) == Max({rstamp[r] : r \in {x \in R : k \in rkeys[x]}} \cup {0})

\* C4: once the only pass admitted so far has exited and isSyncing is false,
\* every change that addChange put into the overflow buffer is in the durable
\* set under its key, unless a later record for that key superseded it.
C4_NoBufferedChangeLost ==
    \A p \in Passes :
        (Exited(p) /\ ~isSyncing /\ OnlyPass(p) /\ NoCleanupCalled) =>
            \A r \in Buffered : \A k \in rkeys[r] :
                \/ durable[k] = rstamp[r]
                \/ \E r2 \in Records : k \in rkeys[r2] /\ rstamp[r2] > rstamp[r]

\* C5: every write of 'pendingChanges' made by addChange happens while
\* isSyncing is false.
C5_NoDurableWriteWhileSyncing ==
    [][\A r \in Records :
        (rpc[r] = "write" /\ rpc'[r] = "doneDurable") => ~isSyncing]_vars

\* C6: once every admitted pass has exited and no cleanup() is in flight,
\* isSyncing is false again (the state in which an admitted pass can no longer
\* bring isSyncing back to false).
C6_ReturnsToIdle ==
    ( /\ \E p \in Passes : Exited(p)
      /\ ActivePasses = {}
      /\ \A c \in Cleanups : cpc[c] \notin {"clear", "ret"} )
    => ~isSyncing

\* C7: after the only pass admitted so far has failed with the
\* network-unavailable error (no cleanup, no resetSyncCache called), the
\* version is the one before the pass and every key that had a durable entry
\* before the pass still has one.
C7_OfflineKeepsDurable ==
    \A p \in Passes :
        ( /\ Exited(p) /\ pres[p] = "NetworkUnavailable"
          /\ OnlyPass(p) /\ NoCleanupCalled /\ NoResetCalled ) =>
            /\ version = verAtEntry[p]
            /\ \A k \in Keys : durAtEntry[p][k] # 0 => durable[k] # 0

\* C8: when an incremental pass during which changes were recorded exits (no
\* storage call of the pass having failed), the durable set is exactly the
\* last recorded entry of each key recorded during the pass.
C8_FlushIsLastWrites ==
    [][\A p \in Passes :
        ( /\ Active(p) /\ pkind[p] = "inc" /\ ppc'[p] = "done"
          /\ pres'[p] # "StorageFailure"
          /\ OnlyPass(p) /\ NoCleanupCalled /\ Buffered # {} ) =>
            \A k \in Keys : durable'[k] = LastFor(Buffered, k)]_vars

\* C9: after the only pass admitted so far has exited with an error (no
\* resetSyncCache called), the version is the one before the pass.
C9_FailedPassKeepsVersion ==
    \A p \in Passes :
        (Exited(p) /\ pres[p] # "success" /\ OnlyPass(p) /\ NoResetCalled) =>
            version = verAtEntry[p]

\* C10: with no sync call and no cleanup made, once all addChange calls have
\* completed without a storage error, the durable set holds for every key the
\* entry of the last call issued for it, or the earlier entry if no call
\* recorded the key.
C10_IdleLastWriteWins ==
    ( /\ \A p \in Passes : ppc[p] = "idle"
      /\ NoCleanupCalled
      /\ \A r \in Records : rpc[r] \in {"idle", "doneDurable", "doneEmpty", "doneSkip"} ) =>
        \A k \in Keys :
            durable[k] = Max({LastFor({r \in Records : rpc[r] = "doneDurable"}, k),
                              InitPending[k]})

\* the record calls whose addChange built its entries after pass p was
\* admitted
RecordedSince(p) == {r \in Records : rstamp[r] > nowAtEntry[p]}

\* no record call has written or is about to write the durable set
NoIdleRecord == \A r \in Records : rpc[r] \in {"idle", "doneTemp", "doneEmpty", "doneSkip"}

\* C11: when an incremental pass admitted with a nonzero version (the pass
\* startSync dispatches to) returns success, no storage call having failed,
\* no record call having arrived since its admission and none being in
\* flight (no cleanup, no resetSyncCache called), the durable set is empty,
\* the version is a new nonzero value and isSyncing is false.
C11_SuccessfulIncrementalPass ==
    [][\A p \in Passes :
        ( /\ Active(p) /\ pkind[p] = "inc" /\ ppc'[p] = "done"
          /\ pres'[p] = "success" /\ verAtEntry[p] # 0
          /\ RecordedSince(p)' = {} /\ NoIdleRecord'
          /\ NoCleanupCalled /\ NoResetCalled ) =>
            /\ durable' = Empty
            /\ version' # 0 /\ version' # verAtEntry[p]
            /\ ~isSyncing']_vars

\* the step in which the version read of startSync call p returns and a
\* strategy is run
Dispatched(p) ==
    /\ ppc[p] = "startRead"
    /\ ppc'[p] \notin {"startRead", "aborted"}

\* startSync runs the full-sync strategy exactly when the version it reads is
\* absent or 0; a completed resetSyncCache leaves the version absent; a
\* successful full sync leaves it nonzero
DispatchByVersionRead ==
    /\ \A p \in Passes :
        Dispatched(p) => pkind'[p] = (IF version = 0 THEN "full" ELSE "inc")
    /\ \A x \in Resets :
        (xpc[x] = "remove" /\ xpc'[x] = "done") => version' = 0
    /\ \A p \in Passes :
        (Active(p) /\ pkind[p] = "full" /\ ppc'[p] = "done" /\ pres'[p] = "success")
            => version' # 0

\* C12 (as claimed): startSync runs the full-sync strategy exactly when the
\* version it reads is absent or 0; once a resetSyncCache has completed, a
\* startSync takes the full-sync branch if no sync pass has completed; once a
\* full sync has succeeded, the following startSync (no other sync call made
\* in between) takes the incremental branch.
C12_DispatchByVersion ==
    [][ /\ DispatchByVersionRead
        /\ \A p \in Passes :
            ( /\ Dispatched(p)
              /\ \E x \in Resets : xpc[x] = "done"
              /\ \A q \in Passes : ~Exited(q) ) => pkind'[p] = "full"
        /\ \A p \in Passes :
            ( /\ Dispatched(p)
              /\ \E q \in Passes : Exited(q) /\ pkind[q] = "full" /\ pres[q] = "success"
              /\ \A q \in Passes : q # p => (Exited(q) /\ pkind[q] = "full") )
                => pkind'[p] = "inc" ]_vars

\* C12 (amended): startSync runs the full-sync strategy exactly when the
\* version it reads is absent or 0 and the incremental strategy otherwise;
\* resetSyncCache, when it completes, leaves the version absent and a
\* successful full sync leaves it nonzero, which decides the branch of a later
\* startSync as long as the version is not written or removed before its
\* read.
C12_DispatchByVersionRead == [][DispatchByVersionRead]_vars

\* C12 witness: after a full sync has succeeded and a resetSyncCache has
\* completed, a startSync call is suspended in its version read
C12_Witness ==
    /\ \E q \in Passes : Exited(q) /\ pkind[q] = "full" /\ pres[q] = "success"
    /\ \E x \in Resets : xpc[x] = "done"
    /\ \E p \in Passes : ppc[p] = "startRead"
    /\ version = 0

\* the step in which the flush of pass p's exit writes the durable set
FlushWrites(p) == ppc[p] = "flushSet" /\ ppc'[p] = "flushRet"

\* the entry of buffered record call r for key k becomes durable in this step
BecomesDurable(r, k) ==
    /\ r \in Buffered /\ k \in rkeys[r]
    /\ durable[k] # rstamp[r] /\ durable'[k] = rstamp[r]

\* a change recorded while isSyncing is true becomes durable only by the
\* flush step of some pass's exit
BufferedOnlyByFlush ==
    [][\A r \in Records : \A k \in Keys :
        BecomesDurable(r, k) => \E p \in Passes : FlushWrites(p)]_vars

\* C13: a change recorded while isSyncing is true stays out of the durable
\* set until the flush step of the exit of the pass during which it was
\* recorded writes it.
C13_BufferedNotVisibleEarly ==
    [][\A r \in Records : \A k \in Keys :
        BecomesDurable(r, k) =>
            \E p \in Passes : FlushWrites(p) /\ r \in RecordedSince(p)]_vars

\* C14: at the moment a cleanup() call completes, the overflow buffer is
\* empty, the durable set is empty and isSyncing is false, whatever was
\* suspended when it was called.
C14_TeardownPostcondition ==
    [][\A c \in Cleanups :
        (cpc[c] = "ret" /\ cpc'[c] = "done") =>
            /\ tempQueue' = Empty
            /\ durable' = Empty
            /\ ~isSyncing']_vars

\* the step in which addChange is called for record call r (directly, or by
\* recordBookmarkChange once its version read has returned a nonzero version)
AddChangeCalled(r) ==
    /\ rpc[r] \in {"idle", "recVersion"}
    /\ rpc'[r] \in {"doneEmpty", "doneTemp", "read"}

\* C15: addChange called with an empty array returns at once, whether
\* isSyncing is true or false: it builds no entry, leaves the durable set and
\* the overflow buffer unchanged and starts no storage call.
C15_EmptyInputIsNoOp ==
    [][\A r \in Records :
        (AddChangeCalled(r) /\ rkeys'[r] = {}) =>
            /\ rpc'[r] = "doneEmpty"
            /\ UNCHANGED <<durable, tempQueue, now, rstamp, rbuf>>]_vars

\* C15 witness: while a pass is in flight and the first record call has been
\* buffered, the second record call, made with an empty array, has returned
C15_Witness ==
    /\ isSyncing /\ \E p \in Passes : Active(p)
    /\ NoCleanupCalled
    /\ rpc[1] = "doneTemp" /\ rpc[2] = "doneEmpty"
    /\ \E k \in Keys : tempQueue[k] = rstamp[1]

\* the step in which clearChanges call d returns or throws
ClearReturns(d) == dpc[d] = "set" /\ dpc'[d] # "set"

\* C16: each of several clearChanges() calls made in a row leaves the durable
\* set empty when it returns, throws only if its storage write threw, and
\* neither the call nor its return changes the overflow buffer.
C16_ClearChangesIdempotent ==
    [][\A d \in Clears :
        /\ tempQueue' = tempQueue
        /\ ClearReturns(d) =>
            IF dfail'[d]
            THEN dpc'[d] = "doneErr" /\ durable' = durable
            ELSE dpc'[d] = "done" /\ durable' = Empty]_vars

\* C16 witness: two calls have returned one after the other, the durable set
\* is empty and the overflow buffer still holds an entry
C16_Witness ==
    /\ dpc[1] = "done" /\ dpc[2] = "done"
    /\ durable = Empty /\ tempQueue # Empty

\* the step in which the clearChanges() call of pass p settles and empties
\* the durable set
ClearWrites(p) == ppc[p] = "clear" /\ pres'[p] = "success"

\* the entry under key k is removed or replaced in this step
Erased(k) == durable[k] # 0 /\ durable'[k] # durable[k]

\* the entry under key k was written by an addChange that took the idle path
WrittenIdle(k) == \E r \in Records : rpc[r] = "doneDurable" /\ rstamp[r] = durable[k]

\* C17: the clearChanges() of a successful incremental pass removes only
\* entries that were in the batch the pass read, and an entry written by an
\* addChange on the idle path is erased by the clear or by the flush of a pass
\* only if it was in the batch of that pass.
C17_NoUnsyncedChangeCleared ==
    [][\A p \in Passes : \A k \in Keys :
        /\ (ClearWrites(p) /\ Erased(k)) => pbatch[p][k] = durable[k]
        /\ ((ClearWrites(p) \/ FlushWrites(p)) /\ Erased(k) /\ WrittenIdle(k))
            => pbatch[p][k] = durable[k]]_vars

\* C18: after an incremental pass that read a change in its batch and cleared
\* the durable set has exited with success, that change (the entry with its
\* timestamp, not a later record for its key) is not in the durable set.
C18_NoSyncedChangeReappears ==
    \A p \in Passes :
        (Exited(p) /\ pkind[p] = "inc" /\ pres[p] = "success") =>
            \A k \in Keys : pbatch[p][k] # 0 => durable[k] # pbatch[p][k]

\* the step in which the version read of recordBookmarkChange call r returns
VersionReadReturns(r) == rpc[r] = "recVersion" /\ rpc'[r] \notin {"recVersion", "doneErr"}

\* C19: recordBookmarkChange records nothing when the version it reads is
\* absent or 0 (no entry built, durable set and overflow buffer unchanged, no
\* storage call started) and calls addChange when the version is nonzero.
C19_RecordGatedOnVersion ==
    [][\A r \in Records :
        VersionReadReturns(r) =>
            IF version = 0
            THEN /\ rpc'[r] = "doneSkip"
                 /\ UNCHANGED <<durable, tempQueue, now, rstamp, rbuf>>
            ELSE AddChangeCalled(r)]_vars

\* C19 witness: after a resetSyncCache has removed the version, a
\* recordBookmarkChange call has returned without recording
C19_Witness ==
    /\ version = 0
    /\ \E x \in Resets : xpc[x] = "done"
    /\ \E r \in Records : rpc[r] = "doneSkip" /\ rstamp[r] = 0

\* a step of a sync call that runs the full-sync strategy
FullSyncStep(p) == ppc'[p] # ppc[p] /\ pkind'[p] = "full"

\* C20: no step of a full-sync pass, from its isSyncing check to its exit,
\* writes the durable set or changes the overflow buffer; the version changes
\* only in the step in which the pass returns success.
C20_FullSyncLeavesLedgerAlone ==
    [][\A p \in Passes :
        FullSyncStep(p) =>
            /\ UNCHANGED <<durable, tempQueue>>
            /\ version' # version => (ppc'[p] = "done" /\ pres'[p] = "success")]_vars

\* C20 witness: a full sync has returned success and the entries that were
\* pending when it was admitted, and an entry buffered during it, are still
\* where they were
C20_Witness ==
    \E p \in Passes :
        /\ Exited(p) /\ pkind[p] = "full" /\ pres[p] = "success"
        /\ durable = durAtEntry[p] /\ durable # Empty
        /\ \E r \in Buffered : \E k \in rkeys[r] : tempQueue[k] = rstamp[r]

====

